---- MODULE Spec2Model ----
(***************************************************************************)
(* A model of the DS1307 real-time-clock driver (ImplFerris/ds1307-rtc).   *)
(*                                                                         *)
(* The driver is stateless: all state lives in the device's 64-byte        *)
(* register file behind an I2C bus.  Every driver operation is a short     *)
(* sequence of bus transactions.  The model keeps the device register      *)
(* file, and, for the most recent driver call, the register file before    *)
(* the call, the call and its arguments, the bus transactions it issued    *)
(* (in order) and what it returned.                                        *)
(***************************************************************************)
EXTENDS Integers, Sequences, FiniteSets, TLC

VARIABLES
    dev,      \* device register file: [0..63 -> 0..255]
    pre,      \* the register file as it was when the last call started
    call,     \* the last driver call: operation name and arguments
    log,      \* the bus transactions the last call issued, in order
    res,      \* the last call's result: "Ok" or the Error variant
    dt_out,   \* <<value>> returned by get_datetime, else << >>
    buf,      \* the caller's buffer after read_nvram, else << >>
    nOps      \* number of driver calls made so far

vars == <<dev, pre, call, log, res, dt_out, buf, nOps>>

----------------------------------------------------------------------------
(* Bounds of the model.                                                    *)

\* how many driver calls one behaviour makes
MaxOps == 2

----------------------------------------------------------------------------
(* 8-bit arithmetic (Rust u8).                                             *)

Byte == 0..255

RECURSIVE AndBits(_, _, _)
AndBits(a, b, n) ==
    IF n = 0 THEN 0
    ELSE (a % 2) * (b % 2) + 2 * AndBits(a \div 2, b \div 2, n - 1)

\* a & b
BitAnd(a, b) == AndBits(a, b, 8)

\* a | b
BitOr(a, b) == a + b - BitAnd(a, b)

\* !a
BitNot(a) == 255 - a

\* bit i of a, as 0 or 1
Bit(a, i) == (a \div (2 ^ i)) % 2

----------------------------------------------------------------------------
(* Register map (registers.rs): addresses and bit masks.                   *)

RegSeconds == 0
RegMinutes == 1
RegHours == 2
RegDay == 3
RegDate == 4
RegMonth == 5
RegYear == 6
RegControl == 7

CH_BIT == 128
SQWE_BIT == 16
OUT_BIT == 128
RS_MASK == 3

I2C_ADDR == 104

NVRAM_START == 8
NVRAM_SIZE == 56
MAX_NVRAM_WRITE == 57

\* the DS1307 has 64 addressable bytes (0x00..0x3F)
DevSize == 64
DevAddrs == 0..(DevSize - 1)

----------------------------------------------------------------------------
(* The device behind the bus.  A write transaction's first byte sets the   *)
(* address pointer; the others are stored at consecutive addresses (the    *)
(* pointer auto-increments and wraps at 0x3F).  A read returns consecutive *)
(* bytes from the given address.                                           *)

DevWrite(d, bytes) ==
    [a \in DevAddrs |->
        LET i == ((a - bytes[1]) % DevSize) + 2
        IN  IF i <= Len(bytes) THEN bytes[i] ELSE d[a]]

DevRead(d, addr, len) == [i \in 1..len |-> d[(addr + i - 1) % DevSize]]

Zeros(len) == [i \in 1..len |-> 0]

(* The device's clock.  While the clock-halt bit (bit 7 of register 0x00)  *)
(* is clear the device advances its BCD time registers once a second, on   *)
(* its own: seconds carry into minutes, minutes into hours (kept in the    *)
(* mode that bit 6 of the hours register selects), hours into the day of   *)
(* the week and the date, the date into the month (with 29 days in         *)
(* February of a year divisible by 4) and the month into the year.         *)

BcdValue(b) == (b \div 16) * 10 + (b % 16)

BcdOf(v) == (((v \div 10) * 16) + (v % 10)) % 256

DevHour24(raw) ==
    IF (raw \div 64) % 2 = 1
    THEN (BcdValue(raw % 32) % 12) + (IF (raw \div 32) % 2 = 1 THEN 12 ELSE 0)
    ELSE BcdValue(raw % 64)

DevHourRaw(h24, mode12) ==
    IF mode12
    THEN 64 + (IF h24 >= 12 THEN 32 ELSE 0)
            + BcdOf(IF h24 % 12 = 0 THEN 12 ELSE h24 % 12)
    ELSE BcdOf(h24)

DevDaysInMonth(yy, mo) ==
    IF mo = 2 THEN (IF yy % 4 = 0 THEN 29 ELSE 28)
    ELSE IF mo \in {4, 6, 9, 11} THEN 30 ELSE 31

DevTick(d) ==
    IF d[RegSeconds] >= CH_BIT THEN d
    ELSE LET s == BcdValue(d[RegSeconds])
             mi == BcdValue(d[RegMinutes])
             h == DevHour24(d[RegHours])
             dd == BcdValue(d[RegDate])
             mo == BcdValue(d[RegMonth])
             yy == BcdValue(d[RegYear])
             toMinute == s + 1 >= 60
             toHour == toMinute /\ mi + 1 >= 60
             toDay == toHour /\ h + 1 >= 24
             toMonth == toDay /\ dd >= DevDaysInMonth(yy, mo)
             toYear == toMonth /\ mo >= 12
         IN  [a \in DevAddrs |->
                CASE a = RegSeconds -> BcdOf((s + 1) % 60)
                  [] a = RegMinutes /\ toMinute -> BcdOf((mi + 1) % 60)
                  [] a = RegHours /\ toHour ->
                        DevHourRaw((h + 1) % 24, (d[RegHours] \div 64) % 2 = 1)
                  [] a = RegDay /\ toDay -> (d[RegDay] % 7) + 1
                  [] a = RegDate /\ toDay -> IF toMonth THEN 1 ELSE BcdOf(dd + 1)
                  [] a = RegMonth /\ toMonth -> IF toYear THEN 1 ELSE BcdOf(mo + 1)
                  [] a = RegYear /\ toYear -> BcdOf((yy + 1) % 100)
                  [] OTHER -> d[a]]

----------------------------------------------------------------------------
(* The I2C transport (embedded-hal I2c).  A context c carries the device,  *)
(* the transactions issued so far by the current call, and failAt: the     *)
(* index of the transaction that the transport fails (0: none fails).  A   *)
(* failed transaction is logged, leaves the device and the read buffer     *)
(* untouched and makes the primitive return Err.  tickAt holds the indices *)
(* of the transactions just before which the device's clock ticks: the     *)
(* device runs on its own while the driver is between two transactions.    *)

CtxT(d, failAt, tickAt) ==
    [dev |-> d, log |-> << >>, failAt |-> failAt, tickAt |-> tickAt,
     ok |-> TRUE, data |-> << >>]

Ctx(d, failAt) == CtxT(d, failAt, {})

\* the device as the next transaction of c finds it
DevAt(c) == IF (Len(c.log) + 1) \in c.tickAt THEN DevTick(c.dev) ELSE c.dev

Txn(kind, bytes, data, ok) ==
    [i2c |-> I2C_ADDR, kind |-> kind, bytes |-> bytes, data |-> data, ok |-> ok]

\* self.i2c.write(I2C_ADDR, bytes)
i2c_write(c, bytes) ==
    LET ok == (Len(c.log) + 1 # c.failAt)
        d == DevAt(c)
    IN  [dev |-> IF ok THEN DevWrite(d, bytes) ELSE d,
         log |-> Append(c.log, Txn("write", bytes, << >>, ok)),
         failAt |-> c.failAt, tickAt |-> c.tickAt, ok |-> ok, data |-> << >>]

\* self.i2c.write_read(I2C_ADDR, &[addr], buffer) with a buffer of len zeros
i2c_write_read(c, addr, len) ==
    LET ok == (Len(c.log) + 1 # c.failAt)
        d == DevAt(c)
        data == IF ok THEN DevRead(d, addr, len) ELSE Zeros(len)
    IN  [dev |-> d,
         log |-> Append(c.log, Txn("write_read", <<addr>>, data, ok)),
         failAt |-> c.failAt, tickAt |-> c.tickAt, ok |-> ok, data |-> data]

----------------------------------------------------------------------------
(* Transaction primitives (ds1307.rs).                                     *)

write_register(c, register, value) == i2c_write(c, <<register, value>>)

read_register(c, register) == i2c_write_read(c, register, 1)

read_register_bytes(c, register, len) == i2c_write_read(c, register, len)

read_bytes_at_address(c, register_addr, len) == i2c_write_read(c, register_addr, len)

write_raw_bytes(c, data) == i2c_write(c, data)

----------------------------------------------------------------------------
(* What a driver call leaves behind.                                       *)

Outcome(c, r, dt, b) ==
    [dev |-> c.dev, log |-> c.log, res |-> r, dt |-> dt, buf |-> b]

\* Ok(()) after the transactions of c
Done(c) == Outcome(c, "Ok", << >>, << >>)

\* Err(Error::I2c(e)) when the last transaction of c failed, else Ok(())
Finish(c) == Outcome(c, IF c.ok THEN "Ok" ELSE "I2c", << >>, << >>)

\* Err(e) for a non-bus error e
Fail(c, e) == Outcome(c, e, << >>, << >>)

\* WriteIfChanged without the write-avoidance test: the write is always issued
WriteIfChanged_AlwaysWrites(c, register, current, new_value) ==
    Finish(write_register(c, register, new_value))

\* "if new_value != current { write_register(..) } else { Ok(()) }"
WriteIfChanged(c, register, current, new_value) ==
    IF new_value # current
    THEN Finish(write_register(c, register, new_value))
    ELSE Done(c)

----------------------------------------------------------------------------
(* Bit-field editor (ds1307.rs).                                           *)

\* set_register_bits that reads the register a second time when the first
\* read fails
set_register_bits_RetryRead(c, register, mask) ==
    LET first == read_register(c, register)
        rd == IF first.ok THEN first ELSE read_register(first, register)
    IN  IF ~rd.ok THEN Finish(rd)
        ELSE LET current == rd.data[1]
                 new_value == BitOr(current, mask)
             IN  WriteIfChanged(rd, register, current, new_value)

set_register_bits(c, register, mask) ==
    LET rd == read_register(c, register)
    IN  IF ~rd.ok THEN Finish(rd)
        ELSE LET current == rd.data[1]
                 new_value == BitOr(current, mask)
             IN  WriteIfChanged(rd, register, current, new_value)

\* clear_register_bits with the mask not inverted: current & mask
clear_register_bits_NoInvert(c, register, mask) ==
    LET rd == read_register(c, register)
    IN  IF ~rd.ok THEN Finish(rd)
        ELSE LET current == rd.data[1]
                 new_value == BitAnd(current, mask)
             IN  WriteIfChanged(rd, register, current, new_value)

clear_register_bits(c, register, mask) ==
    LET rd == read_register(c, register)
    IN  IF ~rd.ok THEN Finish(rd)
        ELSE LET current == rd.data[1]
                 new_value == BitAnd(current, BitNot(mask))
             IN  WriteIfChanged(rd, register, current, new_value)

\* set_output_high that leaves the square wave enable bit alone
set_output_high_KeepsSqwe(c) ==
    LET rd == read_register(c, RegControl)
    IN  IF ~rd.ok THEN Finish(rd)
        ELSE LET current == rd.data[1]
                 new_value == BitOr(current, OUT_BIT)
             IN  WriteIfChanged(rd, RegControl, current, new_value)

set_output_high(c) ==
    LET rd == read_register(c, RegControl)
    IN  IF ~rd.ok THEN Finish(rd)
        ELSE LET current == rd.data[1]
                 new_value == BitOr(BitAnd(current, BitNot(SQWE_BIT)), OUT_BIT)
             IN  WriteIfChanged(rd, RegControl, current, new_value)

set_output_low(c) ==
    LET rd == read_register(c, RegControl)
    IN  IF ~rd.ok THEN Finish(rd)
        ELSE LET current == rd.data[1]
                 new_value == BitAnd(BitAnd(current, BitNot(SQWE_BIT)), BitNot(OUT_BIT))
             IN  WriteIfChanged(rd, RegControl, current, new_value)

----------------------------------------------------------------------------
(* Power control (control.rs).                                             *)

start_clock(c) == clear_register_bits(c, RegSeconds, CH_BIT)

\* halt_clock as a plain read then write, with no test for a change
halt_clock_ReadThenWrite(c) ==
    LET rd == read_register(c, RegSeconds)
    IN  IF ~rd.ok THEN Finish(rd)
        ELSE Finish(write_register(rd, RegSeconds, BitOr(rd.data[1], CH_BIT)))

halt_clock(c) == set_register_bits(c, RegSeconds, CH_BIT)

----------------------------------------------------------------------------
(* Square-wave output (square_wave.rs).                                    *)

\* rtc_hal::square_wave::SquareWaveFreq
SquareWaveFreq == {"Hz1", "Hz1024", "Hz4096", "Hz8192", "Hz32768", "Custom"}

\* << >> stands for Err(UnsupportedSqwFrequency), <<bits>> for Ok(bits)
freq_to_bits(freq) ==
    CASE freq = "Hz1" -> <<0>>
      [] freq = "Hz4096" -> <<1>>
      [] freq = "Hz8192" -> <<2>>
      [] freq = "Hz32768" -> <<3>>
      [] OTHER -> << >>

\* start_square_wave that ORs the new rate-select code in without clearing
\* the field first
start_square_wave_NoClearRs(c, freq) ==
    LET rs == freq_to_bits(freq)
    IN  IF rs = << >> THEN Fail(c, "UnsupportedSqwFrequency")
        ELSE LET rd == read_register(c, RegControl)
             IN  IF ~rd.ok THEN Finish(rd)
                 ELSE LET current == rd.data[1]
                          v1 == BitOr(current, rs[1])
                          v2 == BitAnd(BitOr(v1, SQWE_BIT), BitNot(OUT_BIT))
                      IN  WriteIfChanged(rd, RegControl, current, v2)

start_square_wave(c, freq) ==
    LET rs == freq_to_bits(freq)
    IN  IF rs = << >> THEN Fail(c, "UnsupportedSqwFrequency")
        ELSE LET rd == read_register(c, RegControl)
             IN  IF ~rd.ok THEN Finish(rd)
                 ELSE LET current == rd.data[1]
                          v1 == BitOr(BitAnd(current, BitNot(RS_MASK)), rs[1])
                          v2 == BitAnd(BitOr(v1, SQWE_BIT), BitNot(OUT_BIT))
                      IN  WriteIfChanged(rd, RegControl, current, v2)

\* enable_square_wave that leaves the OUT bit alone
enable_square_wave_KeepsOut(c) ==
    LET rd == read_register(c, RegControl)
    IN  IF ~rd.ok THEN Finish(rd)
        ELSE LET current == rd.data[1]
                 new_value == BitOr(current, SQWE_BIT)
             IN  WriteIfChanged(rd, RegControl, current, new_value)

enable_square_wave(c) ==
    LET rd == read_register(c, RegControl)
    IN  IF ~rd.ok THEN Finish(rd)
        ELSE LET current == rd.data[1]
                 new_value == BitAnd(BitOr(current, SQWE_BIT), BitNot(OUT_BIT))
             IN  WriteIfChanged(rd, RegControl, current, new_value)

disable_square_wave(c) == clear_register_bits(c, RegControl, SQWE_BIT)

\* set_square_wave_frequency that also switches the square wave on
set_square_wave_frequency_AlsoEnables(c, freq) ==
    LET rs == freq_to_bits(freq)
    IN  IF rs = << >> THEN Fail(c, "UnsupportedSqwFrequency")
        ELSE LET rd == read_register(c, RegControl)
             IN  IF ~rd.ok THEN Finish(rd)
                 ELSE LET current == rd.data[1]
                          v1 == BitOr(BitAnd(current, BitNot(RS_MASK)), rs[1])
                          v2 == BitOr(v1, SQWE_BIT)
                      IN  WriteIfChanged(rd, RegControl, current, v2)

set_square_wave_frequency(c, freq) ==
    LET rs == freq_to_bits(freq)
    IN  IF rs = << >> THEN Fail(c, "UnsupportedSqwFrequency")
        ELSE LET rd == read_register(c, RegControl)
             IN  IF ~rd.ok THEN Finish(rd)
                 ELSE LET current == rd.data[1]
                          new_value == BitOr(BitAnd(current, BitNot(RS_MASK)), rs[1])
                      IN  WriteIfChanged(rd, RegControl, current, new_value)

----------------------------------------------------------------------------
(* BCD conversion and the calendar value (rtc_hal::bcd, rtc_hal::datetime). *)

\* bcd::to_decimal: (bcd >> 4) * 10 + (bcd & 0x0F)
to_decimal(b) == (b \div 16) * 10 + (b % 16)

\* bcd::from_decimal: ((decimal / 10) << 4) | (decimal % 10), in 8 bits
from_decimal(v) == BitOr(((v \div 10) * 16) % 256, v % 10)

DT(y, mo, d, h, mi, s) ==
    [year |-> y, month |-> mo, day_of_month |-> d,
     hour |-> h, minute |-> mi, second |-> s]

is_leap_year(y) == (y % 4 = 0 /\ y % 100 # 0) \/ y % 400 = 0

days_in_month(y, mo) ==
    CASE mo \in {1, 3, 5, 7, 8, 10, 12} -> 31
      [] mo \in {4, 6, 9, 11} -> 30
      [] mo = 2 -> IF is_leap_year(y) THEN 29 ELSE 28
      [] OTHER -> 0

\* DateTime::new succeeds exactly on calendar-valid fields
DateTimeValid(y, mo, d, h, mi, s) ==
    /\ mo \in 1..12
    /\ d >= 1 /\ d <= days_in_month(y, mo)
    /\ h < 24 /\ mi < 60 /\ s < 60

\* days from 2000-01-01 to y-01-01, for y >= 2000: 365 for each year and
\* one more for each leap year from 2000 to y - 1
DaysBeforeYear(y) ==
    IF y <= 2000 THEN 0
    ELSE LET leapDaysTo(n) == n \div 4 - n \div 100 + n \div 400
         IN  365 * (y - 2000) + leapDaysTo(y - 1) - leapDaysTo(1999)

RECURSIVE DaysBeforeMonth(_, _)
DaysBeforeMonth(y, mo) ==
    IF mo <= 1 THEN 0 ELSE DaysBeforeMonth(y, mo - 1) + days_in_month(y, mo - 1)

\* DateTime::calculate_weekday followed by Weekday::to_number:
\* <<n>> with 1 = Sunday .. 7 = Saturday (2000-01-01 was a Saturday)
calculate_weekday(dt) ==
    LET days == DaysBeforeYear(dt.year) + DaysBeforeMonth(dt.year, dt.month)
                + (dt.day_of_month - 1)
    IN  <<((days + 6) % 7) + 1>>

----------------------------------------------------------------------------
(* Date and time (datetime.rs).                                            *)

\* decode_hour adding 12 to every PM hour, 12 PM included
decode_hour_PmAlwaysAdds(raw_hour) ==
    IF BitAnd(raw_hour, 64) # 0
    THEN LET hr == to_decimal(BitAnd(raw_hour, 31))
             pm == BitAnd(raw_hour, 32) # 0
         IN  IF pm THEN hr + 12
             ELSE IF ~pm /\ hr = 12 THEN 0
             ELSE hr
    ELSE to_decimal(BitAnd(raw_hour, 63))

\* the hour of get_datetime, from the raw hours byte
decode_hour(raw_hour) ==
    IF BitAnd(raw_hour, 64) # 0
    THEN LET hr == to_decimal(BitAnd(raw_hour, 31))
             pm == BitAnd(raw_hour, 32) # 0
         IN  IF pm /\ hr # 12 THEN hr + 12
             ELSE IF ~pm /\ hr = 12 THEN 0
             ELSE hr
    ELSE to_decimal(BitAnd(raw_hour, 63))

\* get_datetime with the weekday conversion that the source has commented
\* out put back: a weekday register outside 1..7 is an invalid date-time
get_datetime_WeekdayParsed(c) ==
    LET rd == read_register_bytes(c, RegSeconds, 7)
    IN  IF ~rd.ok THEN Finish(rd)
        ELSE LET data == rd.data
                 second == to_decimal(BitAnd(data[1], 127))
                 minute == to_decimal(data[2])
                 hour == decode_hour(data[3])
                 weekday == to_decimal(data[4])
                 day_of_month == to_decimal(data[5])
                 month == to_decimal(data[6])
                 year == 2000 + to_decimal(data[7])
             IN  IF weekday \notin 1..7 THEN Fail(rd, "DateTime")
                 ELSE IF DateTimeValid(year, month, day_of_month, hour, minute, second)
                 THEN Outcome(rd, "Ok",
                              <<DT(year, month, day_of_month, hour, minute, second)>>,
                              << >>)
                 ELSE Fail(rd, "DateTime")

\* get_datetime fetching the time of day and the date in two transactions
get_datetime_TwoReads(c) ==
    LET first == read_register_bytes(c, RegSeconds, 3)
    IN  IF ~first.ok THEN Finish(first)
        ELSE LET rd == read_register_bytes(first, RegDay, 4)
             IN  IF ~rd.ok THEN Finish(rd)
                 ELSE LET data == first.data \o rd.data
                          second == to_decimal(BitAnd(data[1], 127))
                          minute == to_decimal(data[2])
                          hour == decode_hour(data[3])
                          day_of_month == to_decimal(data[5])
                          month == to_decimal(data[6])
                          year == 2000 + to_decimal(data[7])
                      IN  IF DateTimeValid(year, month, day_of_month, hour, minute, second)
                          THEN Outcome(rd, "Ok",
                                       <<DT(year, month, day_of_month, hour, minute, second)>>,
                                       << >>)
                          ELSE Fail(rd, "DateTime")

\* get_datetime taking the day of the month from the weekday register
get_datetime_DayFromWeekday(c) ==
    LET rd == read_register_bytes(c, RegSeconds, 7)
    IN  IF ~rd.ok THEN Finish(rd)
        ELSE LET data == rd.data
                 second == to_decimal(BitAnd(data[1], 127))
                 minute == to_decimal(data[2])
                 hour == decode_hour(data[3])
                 day_of_month == to_decimal(data[4])
                 month == to_decimal(data[6])
                 year == 2000 + to_decimal(data[7])
             IN  IF DateTimeValid(year, month, day_of_month, hour, minute, second)
                 THEN Outcome(rd, "Ok",
                              <<DT(year, month, day_of_month, hour, minute, second)>>,
                              << >>)
                 ELSE Fail(rd, "DateTime")

get_datetime(c) ==
    LET rd == read_register_bytes(c, RegSeconds, 7)
    IN  IF ~rd.ok THEN Finish(rd)
        ELSE LET data == rd.data
                 second == to_decimal(BitAnd(data[1], 127))
                 minute == to_decimal(data[2])
                 hour == decode_hour(data[3])
                 day_of_month == to_decimal(data[5])
                 month == to_decimal(data[6])
                 year == 2000 + to_decimal(data[7])
             IN  IF DateTimeValid(year, month, day_of_month, hour, minute, second)
                 THEN Outcome(rd, "Ok",
                              <<DT(year, month, day_of_month, hour, minute, second)>>,
                              << >>)
                 ELSE Fail(rd, "DateTime")

\* the year test with its upper limit off by one
year_in_range_OffByOne(datetime) == ~(datetime.year < 2000 \/ datetime.year >= 2099)

\* the year test that opens set_datetime
year_in_range(datetime) == ~(datetime.year < 2000 \/ datetime.year > 2099)

\* encode_datetime storing the weekday as 0..6
encode_datetime_WeekdayFromZero(datetime, weekday) ==
    << RegSeconds,
       BitAnd(from_decimal(datetime.second), 127),
       from_decimal(datetime.minute),
       BitAnd(from_decimal(datetime.hour), 63),
       from_decimal(weekday - 1),
       from_decimal(datetime.day_of_month),
       from_decimal(datetime.month),
       from_decimal((datetime.year - 2000) % 256) >>

\* the 8-byte buffer set_datetime composes: the start address and 7 registers
encode_datetime(datetime, weekday) ==
    << RegSeconds,
       BitAnd(from_decimal(datetime.second), 127),
       from_decimal(datetime.minute),
       BitAnd(from_decimal(datetime.hour), 63),
       from_decimal(weekday),
       from_decimal(datetime.day_of_month),
       from_decimal(datetime.month),
       from_decimal((datetime.year - 2000) % 256) >>

set_datetime(c, datetime) ==
    IF ~year_in_range(datetime) THEN Fail(c, "DateTime")
    ELSE LET weekday == calculate_weekday(datetime)
         IN  IF weekday = << >> THEN Fail(c, "DateTime")
             ELSE Finish(write_raw_bytes(c, encode_datetime(datetime, weekday[1])))

----------------------------------------------------------------------------
(* NVRAM (nvram.rs).                                                       *)

\* validate_nvram_bounds without the offset test, the subtraction wrapping
\* in 8 bits
validate_nvram_bounds_NoOffsetTest(offset, len) ==
    LET remaining_space == (NVRAM_SIZE - offset) % 256
    IN  IF len > remaining_space THEN "NvramOutOfBounds" ELSE "Ok"

\* validate_nvram_bounds with the length test off by one
validate_nvram_bounds_OffByOne(offset, len) ==
    IF offset >= NVRAM_SIZE THEN "NvramOutOfBounds"
    ELSE LET remaining_space == NVRAM_SIZE - offset
         IN  IF len > remaining_space + 1 THEN "NvramOutOfBounds" ELSE "Ok"

validate_nvram_bounds(offset, len) ==
    IF offset >= NVRAM_SIZE THEN "NvramOutOfBounds"
    ELSE LET remaining_space == NVRAM_SIZE - offset
         IN  IF len > remaining_space THEN "NvramOutOfBounds" ELSE "Ok"

\* read_nvram without the empty-buffer short-circuit
read_nvram_NoEmptyTest(c, offset, len) ==
    LET v == validate_nvram_bounds(offset, len)
    IN  IF v # "Ok" THEN Outcome(c, v, << >>, Zeros(len))
        ELSE LET nvram_addr == NVRAM_START + offset
                 rd == read_bytes_at_address(c, nvram_addr, len)
             IN  Outcome(rd, IF rd.ok THEN "Ok" ELSE "I2c", << >>, rd.data)

\* the caller passes a buffer of len zero bytes
read_nvram(c, offset, len) ==
    IF len = 0 THEN Outcome(c, "Ok", << >>, << >>)
    ELSE LET v == validate_nvram_bounds(offset, len)
         IN  IF v # "Ok" THEN Outcome(c, v, << >>, Zeros(len))
             ELSE LET nvram_addr == NVRAM_START + offset
                      rd == read_bytes_at_address(c, nvram_addr, len)
                  IN  Outcome(rd, IF rd.ok THEN "Ok" ELSE "I2c", << >>, rd.data)

\* write_nvram copying one byte too few into the buffer it sends, so that
\* the last byte sent is the zero the buffer was created with
write_nvram_DropsLast(c, offset, data) ==
    IF Len(data) = 0 THEN Done(c)
    ELSE LET v == validate_nvram_bounds(offset, Len(data))
         IN  IF v # "Ok" THEN Fail(c, v)
             ELSE LET buffer == <<NVRAM_START + offset>>
                                \o SubSeq(data, 1, Len(data) - 1) \o <<0>>
                  IN  Finish(write_raw_bytes(c, buffer))

write_nvram(c, offset, data) ==
    IF Len(data) = 0 THEN Done(c)
    ELSE LET v == validate_nvram_bounds(offset, Len(data))
         IN  IF v # "Ok" THEN Fail(c, v)
             ELSE LET buffer == <<NVRAM_START + offset>> \o data
                  IN  Finish(write_raw_bytes(c, buffer))

nvram_size == NVRAM_SIZE

----------------------------------------------------------------------------
(* Inputs of the model.                                                    *)

\* register images a device may hold when the driver is constructed:
\* the power-on default (clock halted, 00:00:00 on 01/01/00), a running
\* clock left in 12-hour mode (12:59:45 PM on 15/08/25) and a register
\* file whose month is not valid (13) with a weekday byte that is not 1..7
InitTimeRegs ==
    { <<128, 0, 0, 1, 1, 1, 0>>,
      <<69, 89, 114, 6, 21, 8, 37>>,
      <<48, 21, 35, 9, 49, 19, 153>> }

\* control register images: power-on default (RS = 11), square wave
\* enabled, static high output, and the four unused bits set
InitControls == {3, 16, 128, 108}

\* NVRAM holds a pattern in which every byte differs from its neighbours
InitNvram(a) == (a * 3 + 1) % 256

InitDev(t, ctl) ==
    [a \in DevAddrs |->
        IF a <= RegYear THEN t[a + 1]
        ELSE IF a = RegControl THEN ctl
        ELSE InitNvram(a)]

\* which transaction of a call the transport fails (0: none); a call that
\* issues at most one transaction is given 0 or 1
FailAts == 0..2
FailAts1 == 0..1

\* values handed to set_datetime (each calendar-valid)
SetDateTimes ==
    { DT(1999, 12, 31, 23, 59, 59),
      DT(2100, 1, 1, 0, 0, 0),
      DT(2000, 1, 1, 0, 0, 0),
      DT(2099, 12, 31, 23, 59, 59),
      DT(2024, 2, 29, 12, 30, 45) }

NvramOffsets == {0, 54, 55, 255}

NvramLens == {0, 1, 2}

NvramData == { << >>, <<165>>, <<165, 90>> }

NoCall ==
    [op |-> "none", dt |-> << >>, freq |-> "", offset |-> 0, len |-> 0,
     data |-> << >>, register |-> 0, mask |-> 0, failAt |-> 0, tickAt |-> {}]

Call(op, failAt) == [NoCall EXCEPT !.op = op, !.failAt = failAt]

----------------------------------------------------------------------------
(* The state machine: one action per driver operation.                     *)

Init ==
    /\ \E t \in InitTimeRegs, ctl \in InitControls : dev = InitDev(t, ctl)
    /\ pre = dev
    /\ call = NoCall
    /\ log = << >>
    /\ res = "Ok"
    /\ dt_out = << >>
    /\ buf = << >>
    /\ nOps = 0

\* the driver call c, with outcome out, is made on the device
Do(c, out) ==
    /\ nOps < MaxOps
    /\ \E o \in {out} :
        /\ nOps' = nOps + 1
        /\ pre' = dev
        /\ call' = c
        /\ dev' = o.dev
        /\ log' = o.log
        /\ res' = o.res
        /\ dt_out' = o.dt
        /\ buf' = o.buf

GetDatetime ==
    \E f \in FailAts1 : Do(Call("get_datetime", f), get_datetime(Ctx(dev, f)))

SetDatetime ==
    \E f \in FailAts1, d \in SetDateTimes :
        Do([Call("set_datetime", f) EXCEPT !.dt = <<d>>], set_datetime(Ctx(dev, f), d))

StartClock ==
    \E f \in FailAts : Do(Call("start_clock", f), start_clock(Ctx(dev, f)))

HaltClock ==
    \E f \in FailAts : Do(Call("halt_clock", f), halt_clock(Ctx(dev, f)))

StartSquareWave ==
    \E f \in FailAts, q \in SquareWaveFreq :
        Do([Call("start_square_wave", f) EXCEPT !.freq = q],
           start_square_wave(Ctx(dev, f), q))

EnableSquareWave ==
    \E f \in FailAts :
        Do(Call("enable_square_wave", f), enable_square_wave(Ctx(dev, f)))

DisableSquareWave ==
    \E f \in FailAts :
        Do(Call("disable_square_wave", f), disable_square_wave(Ctx(dev, f)))

SetSquareWaveFrequency ==
    \E f \in FailAts, q \in SquareWaveFreq :
        Do([Call("set_square_wave_frequency", f) EXCEPT !.freq = q],
           set_square_wave_frequency(Ctx(dev, f), q))

SetOutputHigh ==
    \E f \in FailAts : Do(Call("set_output_high", f), set_output_high(Ctx(dev, f)))

SetOutputLow ==
    \E f \in FailAts : Do(Call("set_output_low", f), set_output_low(Ctx(dev, f)))

ReadNvram ==
    \E f \in FailAts1, o \in NvramOffsets, n \in NvramLens :
        Do([Call("read_nvram", f) EXCEPT !.offset = o, !.len = n],
           read_nvram(Ctx(dev, f), o, n))

WriteNvram ==
    \E f \in FailAts1, o \in NvramOffsets, d \in NvramData :
        Do([Call("write_nvram", f) EXCEPT !.offset = o, !.len = Len(d), !.data = d],
           write_nvram(Ctx(dev, f), o, d))

Next ==
    \/ GetDatetime
    \/ SetDatetime
    \/ StartClock
    \/ HaltClock
    \/ StartSquareWave
    \/ EnableSquareWave
    \/ DisableSquareWave
    \/ SetSquareWaveFrequency
    \/ SetOutputHigh
    \/ SetOutputLow
    \/ ReadNvram
    \/ WriteNvram

Spec == Init /\ [][Next]_vars

----------------------------------------------------------------------------
(* The bit-field editor on its own: set_register_bits and                  *)
(* clear_register_bits are crate-internal, so they are driven here         *)
(* directly, once, on a control register holding any byte, with any mask.  *)

BitsRegisters == {RegSeconds, RegControl}

InitBits ==
    /\ \E c \in Byte : dev = InitDev(<<69, 89, 35, 6, 21, 8, 37>>, c)
    /\ pre = dev
    /\ call = NoCall
    /\ log = << >>
    /\ res = "Ok"
    /\ dt_out = << >>
    /\ buf = << >>
    /\ nOps = 0

SetRegisterBits ==
    /\ call.op = "none"
    /\ \E f \in FailAts, r \in BitsRegisters, m \in Byte :
        Do([Call("set_register_bits", f) EXCEPT !.register = r, !.mask = m],
           set_register_bits(Ctx(dev, f), r, m))

ClearRegisterBits ==
    /\ call.op = "none"
    /\ \E f \in FailAts, r \in BitsRegisters, m \in Byte :
        Do([Call("clear_register_bits", f) EXCEPT !.register = r, !.mask = m],
           clear_register_bits(Ctx(dev, f), r, m))

NextBits == SetRegisterBits \/ ClearRegisterBits

SpecBits == InitBits /\ [][NextBits]_vars

----------------------------------------------------------------------------
(* NVRAM access on its own: one read_nvram or write_nvram with any u8      *)
(* offset and any length up to one more than the write buffer holds, and   *)
(* after a write a read of the same region.                                *)

NvramAnyLens == 0..(MAX_NVRAM_WRITE + 1)

\* the bytes written: a pattern of the given length with no zero byte
NvramPattern(n) == [i \in 1..n |-> 255 - i]

InitNvramSpec ==
    /\ dev = InitDev(<<69, 89, 35, 6, 21, 8, 37>>, 3)
    /\ pre = dev
    /\ call = NoCall
    /\ log = << >>
    /\ res = "Ok"
    /\ dt_out = << >>
    /\ buf = << >>
    /\ nOps = 0

ReadNvramAny ==
    /\ call.op = "none"
    /\ \E f \in FailAts1, o \in Byte, n \in NvramAnyLens :
        Do([Call("read_nvram", f) EXCEPT !.offset = o, !.len = n],
           read_nvram(Ctx(dev, f), o, n))

WriteNvramAny ==
    /\ call.op = "none"
    /\ \E f \in FailAts1, o \in Byte, n \in NvramAnyLens :
        Do([Call("write_nvram", f) EXCEPT
                !.offset = o, !.len = n, !.data = NvramPattern(n)],
           write_nvram(Ctx(dev, f), o, NvramPattern(n)))

\* the region just written is read back: same offset, a buffer as long as
\* the data
ReadNvramBack ==
    /\ call.op = "write_nvram"
    /\ \E f \in FailAts1 :
        Do([Call("read_nvram", f) EXCEPT !.offset = call.offset, !.len = call.len],
           read_nvram(Ctx(dev, f), call.offset, call.len))

NextNvram == ReadNvramAny \/ WriteNvramAny \/ ReadNvramBack

SpecNvram == InitNvramSpec /\ [][NextNvram]_vars

----------------------------------------------------------------------------
(* The time codec on its own: set_datetime followed by get_datetime, for   *)
(* values that sweep every field through its whole range.                  *)

\* calendar-valid values: each field swept with the others held
CodecDateTimes ==
    { DT(2024, 2, 29, h, 30, 45) : h \in 0..23 }
    \cup { DT(2024, 2, 29, 12, mi, 45) : mi \in 0..59 }
    \cup { DT(2024, 2, 29, 12, 30, sec) : sec \in 0..59 }
    \cup { DT(y, 3, 31, 23, 59, 59) : y \in 1999..2100 }
    \cup { DT(y, 1, 1, 0, 0, 0) : y \in {1970, 2165, 9999, 65535} }
    \cup { DT(y, mo, d, 0, 0, 0) :
             y \in {2000, 2023, 2024, 2099}, mo \in 1..12, d \in {1, 9, 10, 28} }
    \cup { DT(y, mo, days_in_month(y, mo), 7, 8, 9) :
             y \in {2000, 2023, 2024, 2099}, mo \in 1..12 }

InitCodec ==
    /\ \E t \in InitTimeRegs : dev = InitDev(t, 3)
    /\ pre = dev
    /\ call = NoCall
    /\ log = << >>
    /\ res = "Ok"
    /\ dt_out = << >>
    /\ buf = << >>
    /\ nOps = 0

SetDatetimeAny ==
    /\ call.op = "none"
    /\ \E f \in FailAts1, d \in CodecDateTimes :
        Do([Call("set_datetime", f) EXCEPT !.dt = <<d>>], set_datetime(Ctx(dev, f), d))

GetDatetimeAfterSet ==
    /\ call.op = "set_datetime"
    /\ \E f \in FailAts1 : Do(Call("get_datetime", f), get_datetime(Ctx(dev, f)))

NextCodec == SetDatetimeAny \/ GetDatetimeAfterSet

SpecCodec == InitCodec /\ [][NextCodec]_vars

----------------------------------------------------------------------------
(* Hour decoding on its own: get_datetime on a device whose hours register *)
(* holds any byte (a running clock) or whose clock is halted, and          *)
(* set_datetime of every hour 0..23 followed by get_datetime.              *)

InitDecodeRegs ==
    { <<69, 89, h, 6, 21, 8, 37>> : h \in Byte }
    \cup { <<197, 89, h, 6, 21, 8, 37>> : h \in {35, 114} }

HourDateTimes == { DT(2024, 2, 29, h, 30, 45) : h \in 0..23 }

InitDecode ==
    /\ \E t \in InitDecodeRegs : dev = InitDev(t, 3)
    /\ pre = dev
    /\ call = NoCall
    /\ log = << >>
    /\ res = "Ok"
    /\ dt_out = << >>
    /\ buf = << >>
    /\ nOps = 0

GetDatetimeFirst ==
    /\ call.op = "none"
    /\ \E f \in FailAts1 : Do(Call("get_datetime", f), get_datetime(Ctx(dev, f)))

SetDatetimeHour ==
    /\ call.op = "none"
    /\ \E f \in FailAts1, d \in HourDateTimes :
        Do([Call("set_datetime", f) EXCEPT !.dt = <<d>>], set_datetime(Ctx(dev, f), d))

GetDatetimeAfterHour ==
    /\ call.op = "set_datetime"
    /\ \E f \in FailAts1 : Do(Call("get_datetime", f), get_datetime(Ctx(dev, f)))

NextDecode == GetDatetimeFirst \/ SetDatetimeHour \/ GetDatetimeAfterHour

SpecDecode == InitDecode /\ [][NextDecode]_vars

----------------------------------------------------------------------------
(* Vocabulary of the properties.                                           *)

Reads(l) == { i \in 1..Len(l) : l[i].kind = "write_read" }

Writes(l) == { i \in 1..Len(l) : l[i].kind = "write" }

\* every bus transaction the last call issued succeeded
BusOk == \A i \in 1..Len(log) : log[i].ok

\* transaction t is a single-byte read of register r
IsRegisterRead(t, r) ==
    t.kind = "write_read" /\ t.i2c = I2C_ADDR /\ t.bytes = <<r>> /\ Len(t.data) = 1

\* transaction t is a single-byte write of v to register r
IsRegisterWrite(t, r, v) ==
    t.kind = "write" /\ t.i2c = I2C_ADDR /\ t.bytes = <<r, v>>

\* the byte whose bits are those in S
ByteOf(S) ==
    LET w(i) == IF i \in S THEN 2 ^ i ELSE 0
    IN  w(0) + w(1) + w(2) + w(3) + w(4) + w(5) + w(6) + w(7)

\* n is a | m, bit by bit
IsOr(n, a, m) ==
    n = ByteOf({ i \in 0..7 : Bit(a, i) = 1 \/ Bit(m, i) = 1 })

\* n is a & ~m, bit by bit
IsAndNot(n, a, m) ==
    n = ByteOf({ i \in 0..7 : Bit(a, i) = 1 /\ Bit(m, i) = 0 })

SupportedFreqs == {"Hz1", "Hz4096", "Hz8192", "Hz32768"}

----------------------------------------------------------------------------
(* C1: validation precedes every bus transaction.  A set_datetime with a   *)
(* year outside 2000..2099 returns the DateTime error, a start_square_wave *)
(* or set_square_wave_frequency with a frequency other than the four       *)
(* supported ones returns UnsupportedSqwFrequency, and a non-empty         *)
(* read_nvram or write_nvram that is out of bounds returns                 *)
(* NvramOutOfBounds; each has issued no bus transaction and every device   *)
(* register is as it was.                                                  *)
C1_ValidationBeforeBus ==
    /\ (call.op = "set_datetime" /\ call.dt[1].year \notin 2000..2099)
          => (res = "DateTime" /\ log = << >> /\ dev = pre)
    /\ (call.op \in {"start_square_wave", "set_square_wave_frequency"}
           /\ call.freq \notin SupportedFreqs)
          => (res = "UnsupportedSqwFrequency" /\ log = << >> /\ dev = pre)
    /\ (call.op \in {"read_nvram", "write_nvram"} /\ call.len > 0
           /\ (call.offset >= 56 \/ call.offset + call.len > 56))
          => (res = "NvramOutOfBounds" /\ log = << >> /\ dev = pre)

\* a two-byte write_nvram at offset 255 was refused with nothing on the bus
C1_Witness ==
    /\ call.op = "write_nvram" /\ call.offset = 255 /\ call.data = <<165, 90>>
    /\ res = "NvramOutOfBounds" /\ log = << >> /\ dev = pre

----------------------------------------------------------------------------
(* C2: write-avoidance of the bit-field editor.  For every register byte c *)
(* and mask m, set_register_bits and clear_register_bits first issue       *)
(* exactly one single-byte read of the register; when that read returns c  *)
(* they then issue exactly one single-byte write of the new value (c | m,  *)
(* respectively c & ~m) if and only if the new value differs from c, and   *)
(* no write when it equals c.                                              *)
C2_WriteAvoidance ==
    (call.op \in {"set_register_bits", "clear_register_bits"}) =>
        LET r == call.register
            m == call.mask
            c == pre[r]
        IN  /\ Len(log) >= 1
            /\ IsRegisterRead(log[1], r)
            /\ Reads(log) = {1}
            /\ log[1].ok =>
                /\ log[1].data = <<c>>
                /\ LET changed == IF call.op = "set_register_bits"
                                  THEN ~IsOr(c, c, m) ELSE ~IsAndNot(c, c, m)
                   IN  /\ changed =>
                            /\ Len(log) = 2
                            /\ Writes(log) = {2}
                            /\ Len(log[2].bytes) = 2
                            /\ IsRegisterWrite(log[2], r, log[2].bytes[2])
                            /\ IF call.op = "set_register_bits"
                               THEN IsOr(log[2].bytes[2], c, m)
                               ELSE IsAndNot(log[2].bytes[2], c, m)
                       /\ ~changed => Len(log) = 1
            /\ ~log[1].ok => Len(log) = 1

\* on a control register holding 0b0001_0000, clear_register_bits with mask
\* 0b0001_0000 issued a read and then a write of 0b0000_0000
C2_Witness ==
    /\ call.op = "clear_register_bits" /\ call.register = RegControl
    /\ call.mask = 16 /\ pre[RegControl] = 16
    /\ Len(log) = 2
    /\ IsRegisterRead(log[1], RegControl) /\ log[1].data = <<16>>
    /\ IsRegisterWrite(log[2], RegControl, 0)
    /\ dev[RegControl] = 0

----------------------------------------------------------------------------
(* C3: bit-field updates preserve the rest.  After a successful            *)
(* set_register_bits(r, m) register r holds old | m, after a successful    *)
(* clear_register_bits(r, m) it holds old & ~m; every bit of r outside m   *)
(* keeps its value, and no register other than r is written.               *)
C3_BitsPreserved ==
    (call.op \in {"set_register_bits", "clear_register_bits"} /\ res = "Ok") =>
        LET r == call.register
            m == call.mask
        IN  /\ IF call.op = "set_register_bits"
               THEN IsOr(dev[r], pre[r], m) ELSE IsAndNot(dev[r], pre[r], m)
            /\ \A i \in 0..7 : Bit(m, i) = 0 => Bit(dev[r], i) = Bit(pre[r], i)
            /\ \A a \in DevAddrs \ {r} : dev[a] = pre[a]
            /\ \A i \in Writes(log) : Len(log[i].bytes) = 2 /\ log[i].bytes[1] = r

\* set_register_bits set bits 4 and 0 of a control register holding
\* 0b0110_1100 and kept the four bits that were set
C3_Witness ==
    /\ call.op = "set_register_bits" /\ call.register = RegControl
    /\ call.mask = 17 /\ pre[RegControl] = 108
    /\ res = "Ok" /\ dev[RegControl] = 125

----------------------------------------------------------------------------
(* C4: idempotence of power control.  A halt_clock (start_clock) made when *)
(* the clock-halt bit, bit 7 of register 0x00, is already set (clear)      *)
(* issues one read and no write and leaves the device unchanged; made on a *)
(* running (halted) clock with a working bus it issues one read and one    *)
(* write and leaves the bit set (clear).  So of two halt_clock             *)
(* (start_clock) calls in sequence, the first successful, the second       *)
(* issues one read and no write.                                           *)
C4_HaltStartOnce ==
    /\ (call.op = "halt_clock" /\ Bit(pre[RegSeconds], 7) = 1)
          => (Len(log) = 1 /\ IsRegisterRead(log[1], RegSeconds) /\ dev = pre)
    /\ (call.op = "start_clock" /\ Bit(pre[RegSeconds], 7) = 0)
          => (Len(log) = 1 /\ IsRegisterRead(log[1], RegSeconds) /\ dev = pre)
    /\ (call.op = "halt_clock" /\ Bit(pre[RegSeconds], 7) = 0 /\ BusOk)
          => /\ Len(log) = 2 /\ Reads(log) = {1} /\ Writes(log) = {2}
             /\ res = "Ok" /\ Bit(dev[RegSeconds], 7) = 1
    /\ (call.op = "start_clock" /\ Bit(pre[RegSeconds], 7) = 1 /\ BusOk)
          => /\ Len(log) = 2 /\ Reads(log) = {1} /\ Writes(log) = {2}
             /\ res = "Ok" /\ Bit(dev[RegSeconds], 7) = 0

\* C4, two calls in sequence: the step from a successful halt_clock
\* (start_clock) to the next halt_clock (start_clock)
C4_TwiceStep ==
    \A op \in {"halt_clock", "start_clock"} :
        (call.op = op /\ res = "Ok" /\ call'.op = op)
            => (Len(log') = 1 /\ Reads(log') = {1} /\ Writes(log') = {} /\ dev' = dev)

\* C4: both parts, the rule for a single call in every state and the rule
\* for two calls in sequence on every step
C4_Idempotent == [](C4_HaltStartOnce) /\ [][C4_TwiceStep]_vars

\* a second halt_clock, on the clock that a first halt_clock stopped at 45
\* seconds, issued one read and no write
C4_Witness ==
    /\ nOps = 2 /\ call.op = "halt_clock" /\ res = "Ok"
    /\ pre[RegSeconds] = 197
    /\ Len(log) = 1 /\ IsRegisterRead(log[1], RegSeconds) /\ dev = pre

----------------------------------------------------------------------------
(* C5: auxiliary-storage bounds.  A non-empty read_nvram or write_nvram    *)
(* with offset >= 56 or offset + length > 56 fails with NvramOutOfBounds;  *)
(* otherwise it issues exactly one burst transaction starting at address   *)
(* 0x08 + offset and succeeds unless the bus fails.  So every address an   *)
(* NVRAM transaction touches lies in 0x08..0x3F, a composed write buffer   *)
(* is [0x08 + offset, data...] of at most 57 bytes, and 0x08 + offset fits *)
(* in 8 bits.                                                              *)
C5_NvramBounds ==
    (call.op \in {"read_nvram", "write_nvram"} /\ call.len > 0) =>
        IF call.offset >= 56 \/ call.offset + call.len > 56
        THEN res = "NvramOutOfBounds" /\ log = << >>
        ELSE /\ Len(log) = 1
             /\ log[1].i2c = I2C_ADDR
             /\ log[1].bytes[1] = 8 + call.offset
             /\ log[1].bytes[1] <= 255
             /\ 8 <= log[1].bytes[1] /\ log[1].bytes[1] + call.len - 1 <= 63
             /\ res = (IF log[1].ok THEN "Ok" ELSE "I2c")
             /\ call.op = "write_nvram" =>
                    /\ log[1].kind = "write"
                    /\ log[1].bytes = <<8 + call.offset>> \o call.data
                    /\ Len(log[1].bytes) <= 57
             /\ call.op = "read_nvram" =>
                    /\ log[1].kind = "write_read"
                    /\ log[1].bytes = <<8 + call.offset>>
                    /\ Len(log[1].data) = call.len

\* write_nvram(54, [x, y]) succeeded with the single write [0x08 + 54, x, y]
C5_Witness ==
    /\ call.op = "write_nvram" /\ call.offset = 54 /\ call.len = 2
    /\ res = "Ok"
    /\ Len(log) = 1 /\ log[1].kind = "write"
    /\ log[1].bytes = <<62, call.data[1], call.data[2]>>
    /\ dev[62] = call.data[1] /\ dev[63] = call.data[2]

----------------------------------------------------------------------------
(* C6: empty-operation no-op.  read_nvram(offset, []) and                  *)
(* write_nvram(offset, []) return success and issue no bus transaction,    *)
(* for every offset 0..255.                                                *)
C6_EmptyNoOp ==
    (call.op \in {"read_nvram", "write_nvram"} /\ call.len = 0) =>
        (res = "Ok" /\ log = << >> /\ dev = pre)

\* an empty read_nvram at offset 255 succeeded with nothing on the bus
C6_Witness ==
    /\ call.op = "read_nvram" /\ call.offset = 255 /\ call.len = 0
    /\ res = "Ok" /\ log = << >>

----------------------------------------------------------------------------
(* Vocabulary of the date-time properties.                                 *)

\* byte b is the packed BCD of v: tens digit in the high nibble, units in
\* the low one
IsBcd(b, v) == b \in Byte /\ b \div 16 = v \div 10 /\ b % 16 = v % 10

\* day of the week of a Gregorian date, 1 = Sunday .. 7 = Saturday
\* (Sakamoto's method)
WeekdayOf(y, mo, d) ==
    LET t == <<0, 3, 2, 5, 0, 3, 5, 1, 4, 6, 2, 4>>
        yy == IF mo < 3 THEN y - 1 ELSE y
    IN  ((yy + yy \div 4 - yy \div 100 + yy \div 400 + t[mo] + d) % 7) + 1

----------------------------------------------------------------------------
(* C7: set_datetime on a value with year in 2000..2099 issues exactly one  *)
(* bus write, of the 8 bytes [0x00, bcd(second), bcd(minute), bcd(hour),   *)
(* bcd(weekday, 1 = Sunday .. 7 = Saturday), bcd(day), bcd(month),         *)
(* bcd(year - 2000)], with bit 7 of the seconds byte and bit 6 of the      *)
(* hours byte 0.  After a successful set_datetime the seven time registers *)
(* hold those bytes, so the clock-halt bit and the 12-hour bit are clear   *)
(* whatever the device held before.                                        *)
C7_SetDatetimeBytes ==
    (call.op = "set_datetime" /\ call.dt[1].year \in 2000..2099) =>
        LET d == call.dt[1]
        IN  /\ Len(log) = 1
            /\ log[1].kind = "write" /\ log[1].i2c = I2C_ADDR
            /\ LET b == log[1].bytes
               IN  /\ Len(b) = 8
                   /\ b[1] = 0
                   /\ IsBcd(b[2], d.second)
                   /\ IsBcd(b[3], d.minute)
                   /\ IsBcd(b[4], d.hour)
                   /\ IsBcd(b[5], WeekdayOf(d.year, d.month, d.day_of_month))
                   /\ IsBcd(b[6], d.day_of_month)
                   /\ IsBcd(b[7], d.month)
                   /\ IsBcd(b[8], d.year - 2000)
                   /\ Bit(b[2], 7) = 0
                   /\ Bit(b[4], 6) = 0
                   /\ res = "Ok" =>
                        /\ \A a \in 0..6 : dev[a] = b[a + 2]
                        /\ \A a \in DevAddrs \ (0..6) : dev[a] = pre[a]
            /\ res = (IF log[1].ok THEN "Ok" ELSE "I2c")
            /\ res = "Ok" => (Bit(dev[RegSeconds], 7) = 0 /\ Bit(dev[RegHours], 6) = 0)

\* set_datetime of Thursday 2024-02-29 12:30:45 succeeded on a halted clock
\* and left the oscillator enabled
C7_Witness ==
    /\ call.op = "set_datetime" /\ call.dt = <<DT(2024, 2, 29, 12, 30, 45)>>
    /\ res = "Ok"
    /\ Bit(pre[RegSeconds], 7) = 1
    /\ log[1].bytes = <<0, 69, 48, 18, 5, 41, 2, 36>>
    /\ Bit(dev[RegSeconds], 7) = 0 /\ Bit(dev[RegHours], 6) = 0

----------------------------------------------------------------------------
(* C8: date-time round trip.  For every calendar-valid value with year in  *)
(* 2000..2099, a successful set_datetime followed at once by a             *)
(* get_datetime whose bus read succeeds returns the identical value.       *)
C8_RoundTripStep ==
    (/\ call.op = "set_datetime" /\ res = "Ok"
     /\ call'.op = "get_datetime" /\ res' # "I2c")
        => (res' = "Ok" /\ dt_out' = call.dt)

\* C8: every step from a successful set_datetime to a get_datetime returns
\* the value that was set
C8_RoundTrip == [][C8_RoundTripStep]_vars

\* get_datetime returned 2099-12-31 07:08:09 right after it was set
C8_Witness ==
    /\ nOps = 2 /\ call.op = "get_datetime" /\ res = "Ok"
    /\ dt_out = <<DT(2099, 12, 31, 7, 8, 9)>>
    /\ \A a \in 0..6 : dev[a] = <<9, 8, 7, 5, 49, 18, 153>>[a + 1]

----------------------------------------------------------------------------
(* C9: year boundary.  set_datetime rejects a calendar-valid value with    *)
(* the DateTime error exactly when its year is outside 2000..2099: it      *)
(* fails for 1999 and 2100 and, the bus working, succeeds for 2000 and     *)
(* 2099.                                                                   *)
C9_YearBoundary ==
    (call.op = "set_datetime") =>
        LET y == call.dt[1].year
        IN  /\ (res = "DateTime") <=> (y < 2000 \/ y > 2099)
            /\ (y \in 2000..2099 /\ BusOk) => res = "Ok"
            /\ y \in {1999, 2100} => res = "DateTime"
            /\ (y \in {2000, 2099} /\ call.failAt = 0) => res = "Ok"

\* set_datetime accepted a value of the year 2099
C9_Witness ==
    /\ call.op = "set_datetime" /\ call.dt[1].year = 2099 /\ res = "Ok"
    /\ Len(log) = 1 /\ dev[RegYear] = 153

----------------------------------------------------------------------------
(* C10: hour decoding in get_datetime.  With bit 6 of the hours byte set,  *)
(* bits 4-0 are BCD-decoded as hr and bit 5 is PM: hour 0 for 12 AM, 12    *)
(* for 12 PM, hr + 12 for PM with hr # 12, hr otherwise; with bit 6 clear  *)
(* bits 5-0 are BCD-decoded directly.  get_datetime returns that hour, or  *)
(* the DateTime error when it is not below 24.  For every h in 0..23 the   *)
(* hours byte written by set_datetime decodes back to h.                   *)
\* the hour that C10 gives for a raw hours byte
HourOf(raw) ==
    LET units == raw % 16
    IN  IF Bit(raw, 6) = 1
        THEN LET hr == Bit(raw, 4) * 10 + units
                 pm == Bit(raw, 5) = 1
             IN  CASE hr = 12 /\ ~pm -> 0
                   [] hr = 12 /\ pm -> 12
                   [] hr # 12 /\ pm -> hr + 12
                   [] OTHER -> hr
        ELSE (Bit(raw, 5) * 2 + Bit(raw, 4)) * 10 + units

\* C10, decoding: what get_datetime makes of the hours byte it read
C10_DecodeRule ==
    (call.op = "get_datetime" /\ BusOk) =>
        /\ (res = "Ok") <=> (HourOf(pre[RegHours]) < 24)
        /\ res = "Ok" => dt_out[1].hour = HourOf(pre[RegHours])
        /\ res # "Ok" => res = "DateTime"

\* C10, round trip: the hours byte set_datetime wrote decodes to the hour set
C10_HourRoundTripStep ==
    (/\ call.op = "set_datetime" /\ res = "Ok"
     /\ call'.op = "get_datetime" /\ res' # "I2c")
        => /\ res' = "Ok"
           /\ dt_out'[1].hour = call.dt[1].hour
           /\ HourOf(dev[RegHours]) = call.dt[1].hour

\* C10: the decoding rule in every state and the hour round trip on every
\* step from set_datetime to get_datetime
C10_HourDecoding == [](C10_DecodeRule) /\ [][C10_HourRoundTripStep]_vars

\* an hours byte of 0x52 (12-hour mode, AM, 12) was decoded as hour 0
C10_Witness ==
    /\ call.op = "get_datetime" /\ res = "Ok"
    /\ pre[RegHours] = 82
    /\ dt_out[1].hour = 0

----------------------------------------------------------------------------
(* The control register on its own: a device whose control register holds  *)
(* any byte, one call of any driver operation, and then the same           *)
(* output-level or square-wave-enable call once more.                      *)

InitCtl ==
    /\ \E c \in Byte : dev = InitDev(<<69, 89, 35, 6, 21, 8, 37>>, c)
    /\ pre = dev
    /\ call = NoCall
    /\ log = << >>
    /\ res = "Ok"
    /\ dt_out = << >>
    /\ buf = << >>
    /\ nOps = 0

FirstCall == call.op = "none" /\ Next

RepeatSetOutputHigh == nOps = 1 /\ call.op = "set_output_high" /\ SetOutputHigh

RepeatSetOutputLow == nOps = 1 /\ call.op = "set_output_low" /\ SetOutputLow

RepeatEnableSquareWave == nOps = 1 /\ call.op = "enable_square_wave" /\ EnableSquareWave

RepeatDisableSquareWave ==
    nOps = 1 /\ call.op = "disable_square_wave" /\ DisableSquareWave

NextCtl ==
    \/ FirstCall
    \/ RepeatSetOutputHigh
    \/ RepeatSetOutputLow
    \/ RepeatEnableSquareWave
    \/ RepeatDisableSquareWave

SpecCtl == InitCtl /\ [][NextCtl]_vars

----------------------------------------------------------------------------
(* Vocabulary of the control-register properties.                          *)

\* the rate-select code of a supported frequency
RateCode(freq) ==
    CASE freq = "Hz1" -> 0
      [] freq = "Hz4096" -> 1
      [] freq = "Hz8192" -> 2
      [] freq = "Hz32768" -> 3

\* the bits of byte b among the positions in S
BitsIn(b, S) == { i \in S : Bit(b, i) = 1 }

\* rate-select bits 1-0, and the bits of the control register that are
\* neither rate select nor SQWE (bit 4) nor OUT (bit 7)
RsBits == {0, 1}
OtherBits == {2, 3, 5, 6}

\* the last call read the control register once, first, and wrote it at
\* most once, after the read: the byte target, and only if it differs from
\* the byte c that was read
ReadThenWriteIfChanged(c, target) ==
    /\ Len(log) >= 1
    /\ IsRegisterRead(log[1], RegControl)
    /\ Reads(log) = {1}
    /\ log[1].ok =>
        /\ log[1].data = <<c>>
        /\ target # c => (Len(log) = 2 /\ IsRegisterWrite(log[2], RegControl, target))
        /\ target = c => Len(log) = 1
    /\ ~log[1].ok => Len(log) = 1

\* only the control register may differ between the device before and after
OnlyControlChanged == \A a \in DevAddrs \ {RegControl} : dev[a] = pre[a]

----------------------------------------------------------------------------
(* C11: start_square_wave(f) for a supported f maps Hz1 to 0b00, Hz4096 to *)
(* 0b01, Hz8192 to 0b10 and Hz32768 to 0b11 and, for every prior control   *)
(* byte c, leaves the control register with rate-select bits 1-0 equal to  *)
(* that code, SQWE (bit 4) set, OUT (bit 7) clear and bits 2, 3, 5, 6 as   *)
(* in c; it issues one read and then a write only if the resulting byte    *)
(* differs from c.                                                         *)
C11_StartSquareWave ==
    (call.op = "start_square_wave" /\ call.freq \in SupportedFreqs) =>
        LET c == pre[RegControl]
            target == ByteOf(BitsIn(RateCode(call.freq), RsBits)
                             \cup {4} \cup BitsIn(c, OtherBits))
        IN  /\ ReadThenWriteIfChanged(c, target)
            /\ res = "Ok" =>
                /\ dev[RegControl] = target
                /\ BitsIn(dev[RegControl], RsBits) = BitsIn(RateCode(call.freq), RsBits)
                /\ Bit(dev[RegControl], 4) = 1
                /\ Bit(dev[RegControl], 7) = 0
                /\ BitsIn(dev[RegControl], OtherBits) = BitsIn(c, OtherBits)
                /\ OnlyControlChanged
            /\ res # "Ok" => (res = "I2c" /\ dev = pre)

\* start_square_wave(Hz8192) turned a control byte of 0b1110_1101 into
\* 0b0111_1110 with a read and a write
C11_Witness ==
    /\ call.op = "start_square_wave" /\ call.freq = "Hz8192"
    /\ pre[RegControl] = 237 /\ res = "Ok"
    /\ Len(log) = 2 /\ IsRegisterWrite(log[2], RegControl, 126)
    /\ dev[RegControl] = 126

----------------------------------------------------------------------------
(* C12: enable_square_wave and disable_square_wave never change the        *)
(* rate-select bits 1-0 (disable changes at most SQWE; enable sets SQWE    *)
(* and additionally clears OUT), and set_square_wave_frequency changes at  *)
(* most the rate-select bits, leaving SQWE, OUT and all other control bits *)
(* as they were.                                                           *)
C12_SquareWaveFrame ==
    LET old == pre[RegControl]
        new == dev[RegControl]
    IN  /\ call.op \in {"enable_square_wave", "disable_square_wave"} =>
            /\ BitsIn(new, RsBits) = BitsIn(old, RsBits)
            /\ OnlyControlChanged
        /\ call.op = "disable_square_wave" =>
            BitsIn(new, (0..7) \ {4}) = BitsIn(old, (0..7) \ {4})
        /\ call.op = "enable_square_wave" =>
            /\ BitsIn(new, (0..7) \ {4, 7}) = BitsIn(old, (0..7) \ {4, 7})
            /\ res = "Ok" => (Bit(new, 4) = 1 /\ Bit(new, 7) = 0)
        /\ call.op = "set_square_wave_frequency" =>
            /\ BitsIn(new, 2..7) = BitsIn(old, 2..7)
            /\ OnlyControlChanged

\* set_square_wave_frequency(Hz32768) rewrote the rate select of a control
\* byte with the square wave off and OUT high
C12_Witness ==
    /\ call.op = "set_square_wave_frequency" /\ call.freq = "Hz32768"
    /\ pre[RegControl] = 128 /\ res = "Ok"
    /\ dev[RegControl] = 131

----------------------------------------------------------------------------
(* C13: after a successful set_output_high (set_output_low) the control    *)
(* register has SQWE clear and OUT set (clear), with every other bit,      *)
(* rate select included, unchanged; the call issues one read and a write   *)
(* only if the byte changes, so the same call made again issues no write.  *)
C13_OutputLevel ==
    call.op \in {"set_output_high", "set_output_low"} =>
        LET c == pre[RegControl]
            level == IF call.op = "set_output_high" THEN {7} ELSE {}
            target == ByteOf(BitsIn(c, (0..7) \ {4, 7}) \cup level)
        IN  /\ ReadThenWriteIfChanged(c, target)
            /\ OnlyControlChanged
            /\ res = "Ok" =>
                /\ Bit(dev[RegControl], 4) = 0
                /\ Bit(dev[RegControl], 7) = (IF call.op = "set_output_high" THEN 1 ELSE 0)
                /\ BitsIn(dev[RegControl], (0..7) \ {4, 7}) = BitsIn(c, (0..7) \ {4, 7})
            /\ res # "Ok" => (res = "I2c" /\ dev = pre)

\* the same output-level call directly after a successful one writes nothing
C13_RepeatStep ==
    ( /\ call.op \in {"set_output_high", "set_output_low"}
      /\ res = "Ok"
      /\ call'.op = call.op ) =>
        /\ Writes(log') = {}
        /\ dev' = dev

C13_OutputLevelOnce == [](C13_OutputLevel) /\ [][C13_RepeatStep]_vars

\* a second set_output_high on a device whose first one turned 0b0111_0011
\* into 0b1110_0011: one read, no write
C13_Witness ==
    /\ nOps = 2 /\ call.op = "set_output_high" /\ res = "Ok"
    /\ Len(log) = 1 /\ IsRegisterRead(log[1], RegControl)
    /\ dev[RegControl] = 227 /\ dev[RegSeconds] = 69

----------------------------------------------------------------------------
(* C17: square-wave mode and static-high output are mutually exclusive:    *)
(* starting from a control register in which SQWE and OUT are not both     *)
(* set, no sequence of driver operations (start_square_wave, enable,       *)
(* disable, set_square_wave_frequency, set_output_high, set_output_low,    *)
(* and all non-control operations) reaches a state with both bits set.     *)
(* Stated as the step that carries it along any sequence: no operation     *)
(* takes a control register without both bits to one with both.           *)
SqweAndOut(d) == Bit(d[RegControl], 4) = 1 /\ Bit(d[RegControl], 7) = 1

C17_ExclusiveStep == ~SqweAndOut(dev) => ~SqweAndOut(dev')

C17_SqweOutExclusive == [][C17_ExclusiveStep]_vars

\* enable_square_wave on a device driving OUT high: SQWE set, OUT cleared
C17_Witness ==
    /\ call.op = "enable_square_wave" /\ res = "Ok"
    /\ pre[RegControl] = 131 /\ ~SqweAndOut(pre)
    /\ dev[RegControl] = 19 /\ ~SqweAndOut(dev)

----------------------------------------------------------------------------
(* Decoding on its own: get_datetime on a device one of whose seven time   *)
(* registers holds any byte, the other six being those of a 24-hour, a     *)
(* 12-hour or a halted image.                                              *)

InitAnyRegs ==
    { [t EXCEPT ![i] = b] : t \in InitTimeRegs, i \in 1..7, b \in Byte }

InitRegs ==
    /\ \E t \in InitAnyRegs : dev = InitDev(t, 3)
    /\ pre = dev
    /\ call = NoCall
    /\ log = << >>
    /\ res = "Ok"
    /\ dt_out = << >>
    /\ buf = << >>
    /\ nOps = 0

GetDatetimeAny ==
    /\ call.op = "none"
    /\ \E f \in FailAts1 : Do(Call("get_datetime", f), get_datetime(Ctx(dev, f)))

NextRegs == GetDatetimeAny

SpecRegs == InitRegs /\ [][NextRegs]_vars

----------------------------------------------------------------------------
(* C15: the weekday register is not trusted: for any two device states     *)
(* that differ only in the weekday byte (register 0x03), get_datetime      *)
(* returns the same result (same value or same error), also when the       *)
(* weekday byte is outside 1..7 or not valid BCD.                          *)
C15_WeekdayIgnored ==
    call.op = "get_datetime" =>
        \A w \in Byte :
            LET other == get_datetime(Ctx([pre EXCEPT ![RegDay] = w], call.failAt))
            IN  /\ other.res = res
                /\ other.dt = dt_out

\* a date was decoded from a device whose weekday register holds 0xFF
C15_Witness ==
    /\ call.op = "get_datetime" /\ res = "Ok"
    /\ pre[RegDay] = 255
    /\ dt_out = <<DT(2025, 8, 15, 12, 59, 45)>>

----------------------------------------------------------------------------
(* C19: year windowing on decode: for every content of the seven time      *)
(* registers (all 256 values of each byte, bytes that are not valid BCD    *)
(* included), get_datetime either fails with the invalid-date-time error   *)
(* or returns a value whose year is in 2000..2099, and the decoding        *)
(* arithmetic (hr + 12 in 8 bits, 2000 + decoded year in 16 bits) never    *)
(* overflows.                                                              *)
C19_YearWindow ==
    (call.op = "get_datetime" /\ BusOk) =>
        /\ \/ res = "DateTime"
           \/ res = "Ok" /\ dt_out[1].year \in 2000..2099
        /\ to_decimal(BitAnd(pre[RegHours], 31)) + 12 < 2 ^ 8
        /\ 2000 + to_decimal(pre[RegYear]) < 2 ^ 16

----------------------------------------------------------------------------
(* C16: errors surface on first occurrence with no retry: when a bus       *)
(* transaction fails, the operation returns the wrapped bus error at once  *)
(* and issues no further transaction; in every read-modify-write operation *)
(* (set/clear bits, start/halt clock, all square-wave and output-level     *)
(* operations) a failed read is followed by no write and leaves the device *)
(* unchanged, and a failed transaction is never issued again.              *)
ReadModifyWriteOps ==
    { "start_clock", "halt_clock", "start_square_wave", "enable_square_wave",
      "disable_square_wave", "set_square_wave_frequency",
      "set_output_high", "set_output_low" }

C16_FailFast ==
    /\ \A i \in 1..Len(log) :
        ~log[i].ok => (i = Len(log) /\ res = "I2c")
    /\ res = "I2c" => (Len(log) >= 1 /\ ~log[Len(log)].ok)
    /\ \A i, j \in 1..Len(log) :
        (i < j /\ ~log[i].ok) => (log[j].kind # log[i].kind \/ log[j].bytes # log[i].bytes)
    /\ (call.op \in ReadModifyWriteOps /\ log # << >> /\ ~log[1].ok) =>
        /\ log[1].kind = "write_read"
        /\ Writes(log) = {}
        /\ dev = pre

\* halt_clock whose register read failed: one transaction, the bus error,
\* and a device that still runs
C16_Witness ==
    /\ call.op = "halt_clock" /\ call.failAt = 1
    /\ Len(log) = 1 /\ ~log[1].ok /\ IsRegisterRead(log[1], RegSeconds)
    /\ res = "I2c"
    /\ dev = pre /\ Bit(dev[RegSeconds], 7) = 0

----------------------------------------------------------------------------
(* C20: NVRAM round-trip and frame: for every in-bounds offset o and       *)
(* non-empty data d (o + |d| <= 56), a successful write_nvram(o, d)        *)
(* followed by read_nvram(o, buffer of length |d|) fills the buffer with   *)
(* d; the write changes only device bytes 0x08+o .. 0x08+o+|d|-1, leaving  *)
(* the time registers, the control register and the other NVRAM bytes      *)
(* unchanged.                                                              *)
WroteNvram ==
    /\ call.op = "write_nvram" /\ res = "Ok"
    /\ call.len > 0 /\ call.offset + call.len <= NVRAM_SIZE

C20_WriteFrame ==
    WroteNvram =>
        LET first == NVRAM_START + call.offset
            last == first + call.len - 1
        IN  \A a \in DevAddrs :
                dev[a] = IF a \in first..last THEN call.data[a - first + 1] ELSE pre[a]

C20_ReadBackStep ==
    ( /\ WroteNvram
      /\ call'.op = "read_nvram"
      /\ call'.offset = call.offset /\ call'.len = call.len
      /\ res' = "Ok" ) =>
        /\ buf' = call.data
        /\ dev' = dev

C20_NvramRoundTrip == [](C20_WriteFrame) /\ [][C20_ReadBackStep]_vars

\* the last two NVRAM bytes read back after they were written
C20_Witness ==
    /\ nOps = 2 /\ call.op = "read_nvram" /\ res = "Ok"
    /\ call.offset = 54 /\ call.len = 2
    /\ buf = <<254, 253>>
    /\ dev[62] = 254 /\ dev[63] = 253 /\ dev[61] = InitNvram(61)

----------------------------------------------------------------------------
(* The driver next to a running clock: the device ticks between driver     *)
(* calls and between the bus transactions of one call.                     *)

\* 23:59:59 on 31/12/99; 11:59:59 PM on 28/02/24 in 12-hour mode;
\* 12:34:56 on 15/08/25; and a halted clock
TickTimeRegs ==
    { <<89, 89, 35, 6, 49, 18, 153>>,
      <<89, 89, 113, 4, 40, 2, 36>>,
      <<86, 52, 18, 2, 21, 8, 37>>,
      <<217, 89, 35, 6, 49, 18, 153>> }

TickDateTimes == { DT(2024, 2, 29, 23, 59, 59), DT(2023, 12, 31, 23, 59, 58) }

\* the transactions of a call just before which the clock ticks
TickAts == SUBSET {1, 2}

InitTick ==
    /\ \E t \in TickTimeRegs : dev = InitDev(t, 3)
    /\ pre = dev
    /\ call = NoCall
    /\ log = << >>
    /\ res = "Ok"
    /\ dt_out = << >>
    /\ buf = << >>
    /\ nOps = 0

\* a second passes while the driver is idle
Tick ==
    Do([NoCall EXCEPT !.op = "tick"],
       Outcome(Ctx(DevTick(dev), 0), "Ok", << >>, << >>))

GetDatetimeTicking ==
    \E f \in FailAts1, k \in TickAts :
        Do([Call("get_datetime", f) EXCEPT !.tickAt = k],
           get_datetime(CtxT(dev, f, k)))

SetDatetimeTicking ==
    \E f \in FailAts1, k \in TickAts, d \in TickDateTimes :
        Do([Call("set_datetime", f) EXCEPT !.tickAt = k, !.dt = <<d>>],
           set_datetime(CtxT(dev, f, k), d))

StartClockTicking ==
    \E f \in FailAts, k \in TickAts :
        Do([Call("start_clock", f) EXCEPT !.tickAt = k], start_clock(CtxT(dev, f, k)))

HaltClockTicking ==
    \E f \in FailAts, k \in TickAts :
        Do([Call("halt_clock", f) EXCEPT !.tickAt = k], halt_clock(CtxT(dev, f, k)))

NextTick ==
    \/ Tick
    \/ GetDatetimeTicking
    \/ SetDatetimeTicking
    \/ StartClockTicking
    \/ HaltClockTicking

SpecTick == InitTick /\ [][NextTick]_vars

----------------------------------------------------------------------------
(* Vocabulary of the properties about the running clock.                   *)

\* the time registers of device d hold the date and time dt
Shows(d, dt) ==
    /\ IsBcd(d[RegSeconds] % 128, dt.second)
    /\ IsBcd(d[RegMinutes], dt.minute)
    /\ dt.hour = HourOf(d[RegHours])
    /\ IsBcd(d[RegDate], dt.day_of_month)
    /\ IsBcd(d[RegMonth], dt.month)
    /\ dt.year \in 2000..2099 /\ IsBcd(d[RegYear], dt.year - 2000)

\* the device d after the clock ticked n times
RECURSIVE Ticked(_, _)
Ticked(d, n) == IF n = 0 THEN d ELSE Ticked(DevTick(d), n - 1)

\* the device as its own clock alone would have left it at the end of the
\* last call: the device before the call, ticked as often as the clock
\* ticked before the transactions the call issued
Held == Ticked(pre, Cardinality(call.tickAt \cap (1..Len(log))))

----------------------------------------------------------------------------
(* C14: no torn time reads: get_datetime transfers the seven time          *)
(* registers in exactly one bus transaction (a 7-byte burst read from      *)
(* 0x00), so when device clock ticks are interleaved between driver bus    *)
(* transactions the decoded value always equals the register contents at a *)
(* single instant.                                                         *)
C14_NoTornRead ==
    call.op = "get_datetime" =>
        /\ Len(log) = 1
        /\ log[1].kind = "write_read" /\ log[1].i2c = I2C_ADDR
        /\ log[1].bytes = <<RegSeconds>> /\ Len(log[1].data) = 7
        /\ res = "Ok" =>
            /\ Shows(Held, dt_out[1])
            /\ log[1].data = [i \in 1..7 |-> Held[i - 1]]
            /\ dev = Held

\* the clock rolled from 23:59:59 on 31/12/99 to 00:00:00 on 01/01/00 just
\* before the burst read, and the value decoded is the new one in every field
C14_Witness ==
    /\ call.op = "get_datetime" /\ 1 \in call.tickAt /\ res = "Ok"
    /\ [i \in 1..7 |-> pre[i - 1]] = <<89, 89, 35, 6, 49, 18, 153>>
    /\ dt_out = <<DT(2000, 1, 1, 0, 0, 0)>>

----------------------------------------------------------------------------
(* C18: start_clock and halt_clock change only the clock-halt bit of the   *)
(* seconds register: the BCD seconds count in bits 6-0 that the device     *)
(* holds is never altered by either call, also when the device's clock     *)
(* advances the seconds between the call's register read and its register  *)
(* write.                                                                  *)
C18_SecondsKept ==
    call.op \in {"start_clock", "halt_clock"} =>
        /\ dev[RegSeconds] % 128 = Held[RegSeconds] % 128
        /\ \A a \in DevAddrs \ {RegSeconds} : dev[a] = Held[a]

====
